---- MODULE Spec2Model ----
(***************************************************************************)
(* A model of cursor_council.py: the three-stage LLM council pipeline      *)
(* (collect, peer review, chairman synthesis) and the thread-pool           *)
(* dispatcher that fans one prompt out to the council.                      *)
(*                                                                         *)
(* Text is a sequence of tokens (words and whitespace tokens).  An          *)
(* Optional[str] is a sequence of length 0 (None) or 1 (the text).          *)
(***************************************************************************)
EXTENDS Naturals, Integers, Sequences, FiniteSets, TLC

VARIABLES
    entry,            \* the function the run was started through
    pc,               \* position of the main thread
    exit_code,        \* process exit status: -1 while running
    exc,              \* unhandled exception that ended the run, or "none"
    env_reports,      \* environment errors printed by check_cursor_agent
    noresp_reports,   \* "No models responded" messages printed by run_council
    orch,             \* the Orchestrator's state (run_council)
    trail,            \* the Orchestrator's states, in the order they were entered
    query,            \* the user query
    caller,           \* which stage called query_models_parallel
    models,           \* query_models_parallel: argument models
    prompt,           \* query_models_parallel: argument prompt
    futures,          \* query_models_parallel: future_to_model, in submit order
    done_order,       \* indices of the futures, in the order the calls completed
    snapshot,         \* as_completed: futures found finished when it started, not yet yielded
    yielded,          \* indices of the futures, in the order as_completed yielded them
    results,          \* query_models_parallel: results (a dict, in insertion order)
    stage1,           \* list of {"model", "response"}
    stage2,           \* list of {"model", "ranking"}
    labels,           \* stage2_collect_rankings: labels
    ranking_prompt,   \* stage2_collect_rankings: ranking_prompt
    revealed,         \* stage2_collect_rankings: the mapping printed after collection
    chairman_prompt,  \* stage3_synthesize: chairman_prompt
    chairman_proc,    \* how the chairman's process ended (a sequence of length 0 or 1)
    final,            \* stage3_synthesize's return value (a sequence of length 0 or 1)
    calls,            \* the external model calls issued, per stage
    probe,            \* check_cursor_agent: what the status probe did (length 0 or 1)
    running,          \* the number of external model calls in flight, per stage
    invocations,      \* query_model: the calls followed step by step
    scratch           \* the scratch directories that exist

vars == <<entry, pc, exit_code, exc, env_reports, noresp_reports, orch, trail, query,
          caller, models, prompt, futures, done_order, snapshot, yielded, results,
          stage1, stage2, labels, ranking_prompt, revealed, chairman_prompt,
          chairman_proc, final, calls, probe, running, invocations, scratch>>

dispatch_vars == <<models, prompt, futures, done_order, snapshot, yielded, results>>
stage_vars == <<stage1, stage2, labels, ranking_prompt, revealed, chairman_prompt,
                chairman_proc, final>>
main_vars == <<exit_code, exc, env_reports, noresp_reports, query, probe>>

----------------------------------------------------------------------------
(* Bounds of the inputs of the functions checked on their own. *)
MaxModels == 2
MaxRecords == 2

(* Configuration. *)
COUNCIL_MODELS == <<"sonnet-4.5", "gemini-3-pro", "gpt-5.1">>
CHAIRMAN_MODEL == "sonnet-4.5"
TIMEOUT == 120
CHAIRMAN_TIMEOUT == 180

(* The models the configuration comment lists as available. *)
AVAILABLE_MODELS == <<"sonnet-4.5", "opus-4.5", "opus-4.1", "gemini-3-pro",
                      "gpt-5", "gpt-5.1", "gpt-5.1-high", "grok">>

SENTINEL == <<"Error: Chairman failed to synthesize response.">>

----------------------------------------------------------------------------
(* Strings. *)
Whitespace == {" ", "\n"}

RECURSIVE LStrip(_)
LStrip(s) == IF s # <<>> /\ Head(s) \in Whitespace THEN LStrip(Tail(s)) ELSE s

RECURSIVE RStrip(_)
RStrip(s) ==
    IF s # <<>> /\ s[Len(s)] \in Whitespace
    THEN RStrip(SubSeq(s, 1, Len(s) - 1))
    ELSE s

\* str.strip()
Strip(s) == RStrip(LStrip(s))

\* " ".join(words)
RECURSIVE Join(_)
Join(words) ==
    IF Len(words) = 0 THEN <<>>
    ELSE IF Len(words) = 1 THEN <<words[1]>>
    ELSE <<words[1], " ">> \o Join(Tail(words))

\* str.lower(), token by token
LowerTok(t) ==
    CASE t = "Not" -> "not"
      [] t = "NOT" -> "not"
      [] t = "Logged" -> "logged"
      [] t = "In" -> "in"
      [] t = "AUTHENTICATED" -> "authenticated"
      [] t = "Authenticated" -> "authenticated"
      [] OTHER -> t

Lower(s) == [i \in 1..Len(s) |-> LowerTok(s[i])]

\* needle in s
Contains(s, needle) ==
    \E i \in 0..Len(s) :
        /\ i + Len(needle) <= Len(s)
        /\ \A j \in 1..Len(needle) : s[i + j] = needle[j]

\* chr(n) for the code points the labels use
Chr(n) ==
    CASE n = 65 -> "A" [] n = 66 -> "B" [] n = 67 -> "C" [] n = 68 -> "D"
      [] n = 69 -> "E" [] n = 70 -> "F" [] n = 71 -> "G" [] n = 72 -> "H"

(* Optional[str]. *)
None == <<>>
Some(t) == <<t>>

\* a test for None alone
Truthy_not_none(opt) == opt # None

\* Python's truth value of an Optional[str]: None and "" are false
Truthy(opt) == opt # None /\ opt[1] # <<>>

Range(s) == {s[i] : i \in 1..Len(s)}

----------------------------------------------------------------------------
(* The external process. *)
StdoutSamples == {<<" ">>, <<" ", "a", "\n">>}

\* what subprocess.run can do: return a CompletedProcess, or raise
ProcOutcomes ==
    [kind : {"exited"}, returncode : {0, 1}, stdout : StdoutSamples]
    \cup [kind : {"TimeoutExpired", "FileNotFoundError", "OSError"},
          returncode : {0}, stdout : {<<>>}]


\* what the status probe prints
ProbeStdouts == {<<"Logged", " ", "in">>,
                 <<"Not", " ", "logged", " ", "in">>,
                 <<"NOT", " ", "AUTHENTICATED">>}

ProbeOutcomes ==
    [kind : {"exited"}, returncode : {0, 1}, stdout : ProbeStdouts]
    \cup [kind : {"TimeoutExpired", "FileNotFoundError"},
          returncode : {0}, stdout : {<<>>}]

ArgvSamples == {<<"cursor_council.py">>, <<"cursor_council.py", "why", "not">>}
StdinSamples == {<<" ">>, <<"why", " ", "not", "\n">>}
SampleQuery == <<"why", " ", "not">>

----------------------------------------------------------------------------
(* query_model *)

\* the way one call ended, as query_model tells the cases apart
How(o) ==
    IF o.kind = "exited" THEN (IF o.returncode = 0 THEN "exit0" ELSE "nonzero")
    ELSE IF o.kind = "TimeoutExpired" THEN "timeout"
    ELSE IF o.kind = "FileNotFoundError" THEN "notfound"
    ELSE "exception"

\* the exit code is not looked at
query_model_leaky(o) ==
    IF o.kind = "exited" THEN Some(Strip(o.stdout)) ELSE None

\* query_model's return value, given what subprocess.run did
query_model(o) ==
    IF o.kind = "exited"
    THEN IF o.returncode = 0 THEN Some(Strip(o.stdout)) ELSE None
    ELSE None

\* only the two named exceptions are caught
Escapes_narrow(o) == o.kind = "OSError"

\* whether what subprocess.run raised leaves query_model: the handlers of
\* TimeoutExpired, FileNotFoundError and Exception catch everything
Escapes(o) == FALSE

----------------------------------------------------------------------------
(* dicts, kept in insertion order as sequences of [key, value] *)
HasKey(d, k) == \E i \in 1..Len(d) : d[i].key = k
KeyIndex(d, k) == CHOOSE i \in 1..Len(d) : d[i].key = k
DictGet(d, k) == d[KeyIndex(d, k)].value
DictSet(d, k, v) ==
    IF HasKey(d, k)
    THEN [d EXCEPT ![KeyIndex(d, k)].value = v]
    ELSE Append(d, [key |-> k, value |-> v])
Keys(d) == {d[i].key : i \in 1..Len(d)}

----------------------------------------------------------------------------
(* query_models_parallel *)

NewFuture(m) ==
    [model |-> m, state |-> "running", how |-> "", raised |-> FALSE, result |-> None]
NewCall(m, p, t) == [model |-> m, prompt |-> p, timeout |-> t]

\* the loop stops at the first result
AllYielded_first == Len(yielded) >= 1

\* the loop stops one result short
AllYielded_short == Len(yielded) >= Len(futures) - 1

AllYielded == Len(yielded) = Len(futures)

\* ThreadPoolExecutor(max_workers=len(models)) and the submission of every task
Submit ==
    /\ pc = "submit"
    /\ IF Len(models) = 0
       THEN /\ exc' = "ValueError"
            /\ exit_code' = 1
            /\ pc' = "crashed"
            /\ UNCHANGED <<futures, done_order, snapshot, yielded, results, calls,
                           running>>
       ELSE /\ futures' = [i \in 1..Len(models) |-> NewFuture(models[i])]
            /\ calls' = [calls EXCEPT ![caller] =
                            @ \o [i \in 1..Len(models) |->
                                     NewCall(models[i], prompt, TIMEOUT)]]
            /\ running' = [running EXCEPT ![caller] = @ + Len(models)]
            /\ done_order' = <<>>
            /\ snapshot' = {}
            /\ yielded' = <<>>
            /\ results' = <<>>
            /\ pc' = "as_completed"
            /\ UNCHANGED <<exc, exit_code>>
    /\ UNCHANGED <<entry, invocations, scratch, env_reports, noresp_reports, orch, trail, query, caller,
                   models, prompt, probe>>
    /\ UNCHANGED stage_vars

\* a worker thread: one query_model call runs to its end
WorkerComplete(i, o) ==
    /\ i \in DOMAIN futures
    /\ futures[i].state = "running"
    /\ futures' = [futures EXCEPT ![i] =
                      [@ EXCEPT !.state = "finished",
                                !.how = How(o),
                                !.raised = Escapes(o),
                                !.result = IF Escapes(o) THEN None ELSE query_model(o)]]
    /\ running' = [running EXCEPT ![caller] = @ - 1]
    /\ done_order' = Append(done_order, i)
    /\ UNCHANGED <<entry, invocations, scratch, pc, orch, trail, caller, models, prompt, snapshot, yielded,
                   results, calls>>
    /\ UNCHANGED main_vars
    /\ UNCHANGED stage_vars

\* as_completed starts: the futures already finished are set aside
AsCompleted ==
    /\ pc = "as_completed"
    /\ snapshot' = {i \in DOMAIN futures : futures[i].state = "finished"}
    /\ pc' = "collect"
    /\ UNCHANGED <<entry, invocations, scratch, running, orch, trail, caller, models, prompt, futures, done_order,
                   yielded, results, calls>>
    /\ UNCHANGED main_vars
    /\ UNCHANGED stage_vars

\* the futures as_completed may yield next: those set aside at its start in any
\* order, then the others in the order they finish
NextYield ==
    IF snapshot # {} THEN snapshot
    ELSE LET rest == SelectSeq(done_order, LAMBDA i : i \notin Range(yielded))
         IN  IF rest = <<>> THEN {} ELSE {Head(rest)}

\* the key is taken from the wrong future
StoreResult_stale(d, f) == DictSet(d, futures[1].model, f.result)

\* results[model] = future.result(), or None when future.result() raises
StoreResult(d, f) == DictSet(d, f.model, IF f.raised THEN None ELSE f.result)

\* one turn of the loop over as_completed
Collect(i) ==
    /\ pc = "collect"
    /\ i \in NextYield
    /\ results' = StoreResult(results, futures[i])
    /\ yielded' = Append(yielded, i)
    /\ snapshot' = snapshot \ {i}
    /\ UNCHANGED <<entry, invocations, scratch, running, pc, orch, trail, caller, models, prompt, futures,
                   done_order, calls>>
    /\ UNCHANGED main_vars
    /\ UNCHANGED stage_vars

ReturnTo(c) ==
    CASE c = "stage1" -> "stage1_filter"
      [] c = "stage2" -> "stage2_filter"
      [] OTHER -> "unit_done"

\* the loop ends, the pool is shut down and results is returned
DispatchReturn ==
    /\ pc = "collect"
    /\ AllYielded
    /\ pc' = ReturnTo(caller)
    /\ UNCHANGED <<entry, invocations, scratch, running, orch, trail, caller, calls>>
    /\ UNCHANGED dispatch_vars
    /\ UNCHANGED main_vars
    /\ UNCHANGED stage_vars


----------------------------------------------------------------------------
(* The Orchestrator's state machine: run_council enters state s. *)
Enter(s) == orch' = s /\ trail' = Append(trail, s)

----------------------------------------------------------------------------
(* Stage 1 *)

Truthies(d) == SelectSeq(d, LAMBDA e : Truthy(e.value))

\* a loop that stops one item short
ResponseRecords_short(d) ==
    LET kept == Truthies(SubSeq(d, 1, Len(d) - 1))
    IN  [i \in 1..Len(kept) |-> [model |-> kept[i].key, response |-> kept[i].value[1]]]

\* the loop over responses.items(): only the truthy responses are kept
ResponseRecords(d) ==
    LET kept == Truthies(d)
    IN  [i \in 1..Len(kept) |-> [model |-> kept[i].key, response |-> kept[i].value[1]]]

\* stage1_collect_responses calls the dispatcher with the council and the query
Stage1Call ==
    /\ pc = "stage1"
    /\ models' = COUNCIL_MODELS
    /\ prompt' = query
    /\ caller' = "stage1"
    /\ pc' = "submit"
    /\ UNCHANGED <<entry, invocations, scratch, running, orch, trail, futures, done_order, snapshot, yielded, results, calls>>
    /\ UNCHANGED main_vars
    /\ UNCHANGED stage_vars

\* stage1_collect_responses filters the mapping and returns to run_council
Stage1Filter ==
    /\ pc = "stage1_filter"
    /\ stage1' = ResponseRecords(results)
    /\ Enter("Stage1Done")
    /\ pc' = "branch"
    /\ UNCHANGED <<entry, invocations, scratch, running, caller, calls, stage2, labels, ranking_prompt, revealed,
                   chairman_prompt, chairman_proc, final>>
    /\ UNCHANGED dispatch_vars
    /\ UNCHANGED main_vars

----------------------------------------------------------------------------
(* Stage 2 *)

\* labels that start over after the second
Labels_wrapped(n) == [i \in 1..n |-> Chr(65 + ((i - 1) % 2))]

\* labels = [chr(65 + i) for i in range(len(stage1_results))]
Labels(n) == [i \in 1..n |-> Chr(65 + (i - 1))]

Min(a, b) == IF a < b THEN a ELSE b

\* the blocks of responses_text: zip(labels, stage1_results)
PromptBlocks(ls, rs) ==
    [i \in 1..Min(Len(ls), Len(rs)) |-> [label |-> ls[i], response |-> rs[i].response]]

\* the mapping printed at the end: zip(labels, stage1_results)
RevealedMapping(ls, rs) ==
    [i \in 1..Min(Len(ls), Len(rs)) |-> [label |-> ls[i], model |-> rs[i].model]]

RankingRecords(d) ==
    LET kept == Truthies(d)
    IN  [i \in 1..Len(kept) |-> [model |-> kept[i].key, ranking |-> kept[i].value[1]]]

\* only the models that answered are asked
Reviewers_survivors(rs) == [i \in 1..Len(rs) |-> rs[i].model]

\* the models the ranking prompt is sent to, whatever the Stage-1 results
Reviewers(rs) == COUNCIL_MODELS

\* stage2_collect_rankings: anonymize, build the prompt, call the dispatcher
Stage2Build ==
    /\ pc = "stage2"
    /\ labels' = Labels(Len(stage1))
    /\ ranking_prompt' = [question |-> query, blocks |-> PromptBlocks(labels', stage1)]
    /\ models' = Reviewers(stage1)
    /\ prompt' = ranking_prompt'
    /\ caller' = "stage2"
    /\ pc' = "submit"
    /\ UNCHANGED <<entry, invocations, scratch, running, orch, trail, futures, done_order, snapshot, yielded, results,
                   calls, stage1, stage2, revealed, chairman_prompt, chairman_proc,
                   final>>
    /\ UNCHANGED main_vars

\* stage2_collect_rankings: filter the reviews, print the mapping, return
Stage2Filter ==
    /\ pc = "stage2_filter"
    /\ stage2' = RankingRecords(results)
    /\ revealed' = RevealedMapping(labels, stage1)
    /\ IF entry = "main"
       THEN Enter("Stage2Done") /\ pc' = "stage3"
       ELSE UNCHANGED <<orch, trail>> /\ pc' = "unit_done"
    /\ UNCHANGED <<entry, invocations, scratch, running, caller, calls, stage1, labels, ranking_prompt,
                   chairman_prompt, chairman_proc, final>>
    /\ UNCHANGED dispatch_vars
    /\ UNCHANGED main_vars

----------------------------------------------------------------------------
(* Stage 3 *)

\* only the first record is passed on
Stage1Text_first(rs) ==
    [i \in 1..Min(1, Len(rs)) |-> [model |-> rs[i].model, response |-> rs[i].response]]

Stage1Text(rs) == [i \in 1..Len(rs) |-> [model |-> rs[i].model, response |-> rs[i].response]]
Stage2Text(rs) == [i \in 1..Len(rs) |-> [model |-> rs[i].model, ranking |-> rs[i].ranking]]

\* a failure answered with the empty response
Synthesis_blank(response) == IF Truthy(response) THEN response[1] ELSE <<>>

\* the value stage3_synthesize returns for the chairman's response
Synthesis(response) == IF Truthy(response) THEN response[1] ELSE SENTINEL

\* stage3_synthesize builds the prompt and calls the chairman
Stage3Build ==
    /\ pc = "stage3"
    /\ chairman_prompt' = [question |-> query,
                           stage1_text |-> Stage1Text(stage1),
                           stage2_text |-> Stage2Text(stage2)]
    /\ calls' = [calls EXCEPT !["stage3"] =
                    Append(@, NewCall(CHAIRMAN_MODEL, chairman_prompt', CHAIRMAN_TIMEOUT))]
    /\ running' = [running EXCEPT !["stage3"] = @ + 1]
    /\ futures' = <<>>
    /\ done_order' = <<>>
    /\ snapshot' = {}
    /\ yielded' = <<>>
    /\ results' = <<>>
    /\ pc' = "chairman"
    /\ UNCHANGED <<entry, invocations, scratch, orch, trail, caller, models, prompt, stage1, stage2, labels,
                   ranking_prompt, revealed, chairman_proc, final>>
    /\ UNCHANGED main_vars

\* the chairman's call ends and stage3_synthesize returns
ChairmanReturns(o) ==
    /\ pc = "chairman"
    /\ chairman_proc' = <<o>>
    /\ running' = [running EXCEPT !["stage3"] = @ - 1]
    /\ IF Escapes(o)
       THEN /\ exc' = o.kind
            /\ exit_code' = 1
            /\ pc' = "crashed"
            /\ UNCHANGED <<final, orch, trail>>
       ELSE /\ final' = <<Synthesis(query_model(o))>>
            /\ IF entry = "main"
               THEN Enter("Stage3Done") /\ pc' = "report"
               ELSE UNCHANGED <<orch, trail>> /\ pc' = "unit_done"
            /\ UNCHANGED <<exc, exit_code>>
    /\ UNCHANGED <<entry, invocations, scratch, caller, calls, stage1, stage2, labels,
                   ranking_prompt, revealed, chairman_prompt, env_reports,
                   noresp_reports, query, probe>>
    /\ UNCHANGED dispatch_vars

----------------------------------------------------------------------------
(* run_council *)

\* a test that an empty list never meets
NoResponse_never(s) == Len(s) < 0

\* if not stage1
NoResponse(s) == Len(s) = 0

\* a comparison off by one
SeveralResponses_one(s) == Len(s) >= 1

\* if len(stage1) > 1
SeveralResponses(s) == Len(s) > 1

RunCouncil ==
    /\ pc = "run_council"
    /\ Enter("Start")
    /\ pc' = "stage1"
    /\ UNCHANGED <<entry, invocations, scratch, running, caller, calls>>
    /\ UNCHANGED dispatch_vars
    /\ UNCHANGED main_vars
    /\ UNCHANGED stage_vars

\* if not stage1: report and return
NoResponses ==
    /\ pc = "branch"
    /\ NoResponse(stage1)
    /\ noresp_reports' = noresp_reports + 1
    /\ futures' = <<>>
    /\ done_order' = <<>>
    /\ yielded' = <<>>
    /\ results' = <<>>
    /\ pc' = "returned"
    /\ UNCHANGED <<entry, invocations, scratch, running, orch, trail, caller, calls, models, prompt, snapshot,
                   exit_code, exc, env_reports, query, probe>>
    /\ UNCHANGED stage_vars

\* if len(stage1) > 1: stage 2 is called
Stage2Call ==
    /\ pc = "branch"
    /\ ~NoResponse(stage1)
    /\ SeveralResponses(stage1)
    /\ pc' = "stage2"
    /\ futures' = <<>>
    /\ done_order' = <<>>
    /\ yielded' = <<>>
    /\ results' = <<>>
    /\ UNCHANGED <<entry, invocations, scratch, running, orch, trail, caller, calls, models, prompt, snapshot>>
    /\ UNCHANGED main_vars
    /\ UNCHANGED stage_vars

\* else: stage 2 is skipped
Stage2Skip ==
    /\ pc = "branch"
    /\ ~NoResponse(stage1)
    /\ ~SeveralResponses(stage1)
    /\ stage2' = <<>>
    /\ Enter("Stage2Skipped")
    /\ pc' = "stage3"
    /\ UNCHANGED <<entry, invocations, scratch, running, caller, calls, stage1, labels, ranking_prompt, revealed,
                   chairman_prompt, chairman_proc, final>>
    /\ UNCHANGED dispatch_vars
    /\ UNCHANGED main_vars

\* the final answer is printed and run_council returns
Report ==
    /\ pc = "report"
    /\ Enter("Reported")
    /\ pc' = "returned"
    /\ UNCHANGED <<entry, invocations, scratch, running, caller, calls>>
    /\ UNCHANGED dispatch_vars
    /\ UNCHANGED main_vars
    /\ UNCHANGED stage_vars

----------------------------------------------------------------------------
(* main *)

NotLoggedIn == <<"not", " ", "logged", " ", "in">>
NotAuthenticated == <<"not", " ", "authenticated">>

\* the output is searched as printed, not lowered
check_cursor_agent_cased(o) ==
    IF o.kind = "exited"
    THEN ~(Contains(o.stdout, NotLoggedIn) \/ Contains(o.stdout, NotAuthenticated))
    ELSE IF o.kind = "FileNotFoundError" THEN FALSE
    ELSE TRUE

\* check_cursor_agent's return value, given what the status probe did
check_cursor_agent(o) ==
    IF o.kind = "exited"
    THEN ~(Contains(Lower(o.stdout), NotLoggedIn)
           \/ Contains(Lower(o.stdout), NotAuthenticated))
    ELSE IF o.kind = "FileNotFoundError" THEN FALSE
    ELSE TRUE

\* main: if not check_cursor_agent(): sys.exit(1)
CheckCursorAgent(o) ==
    /\ pc = "main"
    /\ probe' = <<o>>
    /\ IF check_cursor_agent(o)
       THEN /\ pc' = "get_query"
            /\ UNCHANGED <<exit_code, env_reports>>
       ELSE /\ pc' = "exit"
            /\ exit_code' = 1
            /\ env_reports' = env_reports + 1
    /\ UNCHANGED <<entry, invocations, scratch, running, orch, trail, caller, calls, exc, noresp_reports, query>>
    /\ UNCHANGED dispatch_vars
    /\ UNCHANGED stage_vars

\* main: the query comes from the command line or from standard input
GetQuery(argv, line) ==
    /\ pc = "get_query"
    /\ IF Len(argv) > 1
       THEN /\ query' = Join(Tail(argv))
            /\ pc' = "run_council"
            /\ UNCHANGED exit_code
       ELSE IF Strip(line) = <<>>
       THEN /\ pc' = "exit"
            /\ exit_code' = 0
            /\ UNCHANGED query
       ELSE /\ query' = Strip(line)
            /\ pc' = "run_council"
            /\ UNCHANGED exit_code
    /\ probe' = <<>>
    /\ UNCHANGED <<entry, invocations, scratch, running, orch, trail, caller, calls, exc, env_reports, noresp_reports>>
    /\ UNCHANGED dispatch_vars
    /\ UNCHANGED stage_vars

\* run_council has returned: the process ends
MainReturn ==
    /\ pc = "returned"
    /\ pc' = "exit"
    /\ exit_code' = 0
    /\ UNCHANGED <<entry, invocations, scratch, running, orch, trail, caller, calls, exc, env_reports, noresp_reports,
                   query, probe>>
    /\ UNCHANGED dispatch_vars
    /\ UNCHANGED stage_vars


----------------------------------------------------------------------------
(* The program, started through main. *)

NoCalls == [k \in {"stage1", "stage2", "stage3", "direct"} |-> <<>>]
NoneRunning == [k \in {"stage1", "stage2", "stage3", "direct"} |-> 0]
NoRankingPrompt == [question |-> <<>>, blocks |-> <<>>]
NoChairmanPrompt == [question |-> <<>>, stage1_text |-> <<>>, stage2_text |-> <<>>]

Fresh ==
    /\ exit_code = -1
    /\ exc = "none"
    /\ env_reports = 0
    /\ noresp_reports = 0
    /\ orch = "Idle"
    /\ trail = <<>>
    /\ futures = <<>>
    /\ done_order = <<>>
    /\ snapshot = {}
    /\ yielded = <<>>
    /\ results = <<>>
    /\ labels = <<>>
    /\ ranking_prompt = NoRankingPrompt
    /\ revealed = <<>>
    /\ chairman_prompt = NoChairmanPrompt
    /\ chairman_proc = <<>>
    /\ final = <<>>
    /\ calls = NoCalls
    /\ running = NoneRunning
    /\ scratch = {}
    /\ probe = <<>>

Init ==
    /\ Fresh
    /\ invocations = <<>>
    /\ entry = "main"
    /\ pc = "main"
    /\ query = <<>>
    /\ caller = "none"
    /\ models = <<>>
    /\ prompt = <<>>
    /\ stage1 = <<>>
    /\ stage2 = <<>>

Next ==
    \/ \E o \in ProbeOutcomes : CheckCursorAgent(o)
    \/ \E argv \in ArgvSamples, line \in StdinSamples : GetQuery(argv, line)
    \/ RunCouncil
    \/ Stage1Call
    \/ Submit
    \/ \E i \in 1..Len(futures), o \in ProcOutcomes : WorkerComplete(i, o)
    \/ AsCompleted
    \/ \E i \in 1..Len(futures) : Collect(i)
    \/ DispatchReturn
    \/ Stage1Filter
    \/ NoResponses
    \/ Stage2Call
    \/ Stage2Skip
    \/ Stage2Build
    \/ Stage2Filter
    \/ Stage3Build
    \/ \E o \in ProcOutcomes : ChairmanReturns(o)
    \/ Report
    \/ MainReturn

Spec == Init /\ [][Next]_vars

----------------------------------------------------------------------------
(* The dispatcher and the stages, each called on its own with inputs drawn  *)
(* from bounded sets.                                                       *)

SeqsUpTo(S, n) == UNION {[1..k -> S] : k \in 0..n}

ModelLists == SeqsUpTo({AVAILABLE_MODELS[i] : i \in 1..MaxModels}, MaxModels)

ResponseSamples == {<<"a">>, <<"b">>}

ResponseLists ==
    UNION {{[i \in 1..k |-> [model |-> AVAILABLE_MODELS[i], response |-> t[i]]] :
               t \in [1..k -> ResponseSamples]} : k \in 0..MaxRecords}

RankingLists ==
    UNION {{[i \in 1..k |-> [model |-> AVAILABLE_MODELS[i], ranking |-> t[i]]] :
               t \in [1..k -> ResponseSamples]} : k \in 0..MaxRecords}

InitDispatch ==
    /\ entry = "query_models_parallel"
    /\ pc = "submit"
    /\ caller = "direct"
    /\ models \in ModelLists
    /\ prompt = SampleQuery
    /\ stage1 = <<>>
    /\ stage2 = <<>>

InitStage2 ==
    /\ entry = "stage2_collect_rankings"
    /\ pc = "stage2"
    /\ caller = "none"
    /\ models = <<>>
    /\ prompt = <<>>
    /\ stage1 \in ResponseLists
    /\ stage2 = <<>>

InitStage3 ==
    /\ entry = "stage3_synthesize"
    /\ pc = "stage3"
    /\ caller = "none"
    /\ models = <<>>
    /\ prompt = <<>>
    /\ stage1 \in ResponseLists
    /\ stage2 \in RankingLists

InitUnit ==
    /\ Fresh
    /\ invocations = <<>>
    /\ query = SampleQuery
    /\ (InitDispatch \/ InitStage2 \/ InitStage3)

NextUnit ==
    \/ Submit
    \/ \E i \in 1..Len(futures), o \in ProcOutcomes : WorkerComplete(i, o)
    \/ AsCompleted
    \/ \E i \in 1..Len(futures) : Collect(i)
    \/ DispatchReturn
    \/ Stage2Build
    \/ Stage2Filter
    \/ Stage3Build
    \/ \E o \in ProcOutcomes : ChairmanReturns(o)

SpecUnit == InitUnit /\ [][NextUnit]_vars


----------------------------------------------------------------------------
(* The program and the directly called functions together. *)

InitAll == Init \/ InitUnit

SpecAll == InitAll /\ [][Next]_vars

----------------------------------------------------------------------------
(* query_model followed step by step: the scratch directory is made on      *)
(* entering the with block, the external process runs inside it, and the    *)
(* block is left (by return or by the raised exception) before the value is *)
(* handed back. Several calls run side by side, as the pool's workers do.   *)
(* TemporaryDirectory is taken at its contract: mkdtemp makes a directory   *)
(* that did not exist, cleanup removes it.                                  *)

MaxCalls == 2

ScratchDirs == 1..(MaxCalls + 1)

NewInvocation == [at |-> "called", tmpdir |-> None, outcome |-> <<>>, result |-> None]

\* the directories handed out so far
Made == {invocations[i].tmpdir[1] :
            i \in {j \in 1..Len(invocations) : invocations[j].tmpdir # None}}

\* the directory stays behind when the block is left by an exception
AfterExit_leaky(dirs, d, o) == IF o.kind = "exited" THEN dirs \ {d} ELSE dirs

\* TemporaryDirectory.__exit__: the directory is removed however the block is left
AfterExit(dirs, d, o) == dirs \ {d}

\* with tempfile.TemporaryDirectory() as tmpdir
EnterWith(i, d) ==
    /\ pc = "calls"
    /\ invocations[i].at = "called"
    /\ d \notin scratch \cup Made
    /\ scratch' = scratch \cup {d}
    /\ invocations' = [invocations EXCEPT ![i] = [@ EXCEPT !.at = "inside",
                                                        !.tmpdir = Some(d)]]
    /\ UNCHANGED <<entry, pc, orch, trail, caller, calls, running>>
    /\ UNCHANGED dispatch_vars
    /\ UNCHANGED stage_vars
    /\ UNCHANGED main_vars

\* subprocess.run returns or raises
ProcessEnds(i, o) ==
    /\ pc = "calls"
    /\ invocations[i].at = "inside"
    /\ invocations' = [invocations EXCEPT ![i] = [@ EXCEPT !.at = "ended",
                                                        !.outcome = <<o>>]]
    /\ UNCHANGED <<entry, pc, orch, trail, caller, calls, running, scratch>>
    /\ UNCHANGED dispatch_vars
    /\ UNCHANGED stage_vars
    /\ UNCHANGED main_vars

\* the with block is left and the call returns its value
ExitWith(i) ==
    /\ pc = "calls"
    /\ invocations[i].at = "ended"
    /\ scratch' = AfterExit(scratch, invocations[i].tmpdir[1], invocations[i].outcome[1])
    /\ invocations' = [invocations EXCEPT ![i] =
                          [@ EXCEPT !.at = "returned",
                                    !.result = query_model(invocations[i].outcome[1])]]
    /\ UNCHANGED <<entry, pc, orch, trail, caller, calls, running>>
    /\ UNCHANGED dispatch_vars
    /\ UNCHANGED stage_vars
    /\ UNCHANGED main_vars

InitCall ==
    /\ Fresh
    /\ entry = "query_model"
    /\ pc = "calls"
    /\ invocations \in UNION {[1..k -> {NewInvocation}] : k \in 1..MaxCalls}
    /\ query = SampleQuery
    /\ caller = "none"
    /\ models = <<>>
    /\ prompt = SampleQuery
    /\ stage1 = <<>>
    /\ stage2 = <<>>

NextCall ==
    \/ \E i \in 1..Len(invocations), d \in ScratchDirs : EnterWith(i, d)
    \/ \E i \in 1..Len(invocations), o \in ProcOutcomes : ProcessEnds(i, o)
    \/ \E i \in 1..Len(invocations) : ExitWith(i)

SpecCall == InitCall /\ [][NextCall]_vars

----------------------------------------------------------------------------
(* The program under the assumption that whatever can happen next does      *)
(* happen: every external process ends (by exit, by its timeout or by an    *)
(* error), and the coordinating thread keeps running.                       *)

SpecLive == Init /\ [][Next]_vars /\ WF_vars(Next)

----------------------------------------------------------------------------
(* Properties. *)

DispatchDone == pc = "collect" /\ AllYielded
Stage1Returned == entry = "main" /\ orch \notin {"Idle", "Start"}
AllExitZero == \A i \in 1..Len(futures) : futures[i].how = "exit0"

\* C1: for every list of N distinct model identifiers, N = 0 included, and every
\* outcome of the calls, query_models_parallel returns a mapping whose key set is
\* exactly the set of the input models (the claim as stated; the code fails it)
C1_KeySetIsModelSet ==
    (entry = "query_models_parallel" /\ pc \in {"unit_done", "crashed"})
        => /\ pc = "unit_done"
           /\ exc = "none"
           /\ Keys(results) = Range(models)
           /\ Len(results) = Cardinality(Range(models))

\* C2 as stated: when every Stage-1 call exits with code zero, whatever it printed,
\* stage1_collect_responses returns as many records as the council has models
C2_ExitZeroGivesFullStage1 ==
    (entry = "main" /\ pc = "branch" /\ AllExitZero)
        => Len(stage1) = Len(COUNCIL_MODELS)

\* C2, amended: when every Stage-1 call exits with code zero and its output is not
\* empty once trimmed, stage1_collect_responses returns as many records as the
\* council has models
C2_NonEmptyOutputGivesFullStage1 ==
    (entry = "main" /\ pc = "branch" /\ AllExitZero
       /\ \A i \in 1..Len(futures) : futures[i].result # Some(<<>>))
        => Len(stage1) = Len(COUNCIL_MODELS)

C2_Witness ==
    /\ entry = "main" /\ pc = "branch" /\ AllExitZero
    /\ Len(futures) = Len(COUNCIL_MODELS)
    /\ \A i \in 1..Len(futures) : futures[i].result = Some(<<"a">>)
    /\ Len(stage1) = Len(COUNCIL_MODELS)

\* C3: when Stage 1 yields no survivor, run_council reports the failure and halts:
\* no Stage-2 call and no Stage-3 call is ever issued, and no later state is entered
C3_NoSurvivorHalts ==
    (Stage1Returned /\ Len(stage1) = 0)
        => /\ calls["stage2"] = <<>>
           /\ calls["stage3"] = <<>>
           /\ orch = "Stage1Done"
           /\ pc \in {"branch", "returned", "exit"}
           /\ (pc # "branch" => noresp_reports = 1)

C3_Witness ==
    /\ Stage1Returned /\ Len(stage1) = 0
    /\ Len(calls["stage1"]) = Len(COUNCIL_MODELS)
    /\ pc = "exit" /\ noresp_reports = 1

\* C4: when exactly one model survives Stage 1, no Stage-2 call is issued, the
\* ranking sequence is empty, and Stage 3 still runs: the run does not end before
\* the chairman was called with the single Stage-1 record and no ranking
C4_OneSurvivorSkipsStage2 ==
    (Stage1Returned /\ Len(stage1) = 1)
        => /\ calls["stage2"] = <<>>
           /\ stage2 = <<>>
           /\ orch # "Stage2Done"
           /\ pc \in {"branch", "stage3", "chairman", "report", "returned", "exit"}
           /\ (pc \in {"chairman", "report", "returned", "exit"}
                 => /\ Len(calls["stage3"]) = 1
                    /\ calls["stage3"][1].prompt.stage1_text = Stage1Text(stage1)
                    /\ calls["stage3"][1].prompt.stage2_text = <<>>)
           /\ (pc \in {"returned", "exit"} => orch = "Reported" /\ final # <<>>)

C4_Witness ==
    /\ Stage1Returned /\ Len(stage1) = 1
    /\ pc = "exit" /\ orch = "Reported"
    /\ Len(calls["stage3"]) = 1 /\ calls["stage2"] = <<>>


InStage2 ==
    \/ pc \in {"stage2", "stage2_filter"}
    \/ caller = "stage2" /\ pc \in {"submit", "as_completed", "collect"}

\* C5 as stated: stage2_collect_rankings itself, called with fewer than two
\* records, issues no model call and returns an empty sequence
C5_Stage2ItselfSkips ==
    (entry = "stage2_collect_rankings" /\ Len(stage1) < 2)
        => /\ calls["stage2"] = <<>>
           /\ (pc = "unit_done" => stage2 = <<>>)

\* C5, amended: the skip is run_council's: it calls stage2_collect_rankings only
\* with two or more records, and with fewer than two it leaves the ranking
\* sequence empty and issues no Stage-2 call; stage2_collect_rankings called on its
\* own with fewer than two records still sends the prompt to every council model
\* and returns the reviews that came back
C5_SkipIsRunCouncils ==
    /\ (entry = "main" /\ InStage2) => Len(stage1) >= 2
    /\ (Stage1Returned /\ Len(stage1) < 2)
          => calls["stage2"] = <<>> /\ stage2 = <<>>
    /\ (entry = "stage2_collect_rankings" /\ pc = "unit_done")
          => /\ Len(calls["stage2"]) = Len(COUNCIL_MODELS)
             /\ stage2 = RankingRecords(results)

C5_Witness ==
    /\ entry = "stage2_collect_rankings" /\ pc = "unit_done"
    /\ Len(stage1) = 1
    /\ Len(calls["stage2"]) = Len(COUNCIL_MODELS)
    /\ Len(stage2) = Len(COUNCIL_MODELS)

Letters == <<"A", "B", "C", "D", "E", "F", "G", "H">>
Stage2Built == ranking_prompt # NoRankingPrompt
Stage2Revealed ==
    \/ entry = "main" /\ orch \in {"Stage2Done", "Stage3Done", "Reported"}
         /\ calls["stage2"] # <<>>
    \/ entry = "stage2_collect_rankings" /\ pc = "unit_done"

\* C6: in a Stage-2 invocation with S survivors exactly S labels A, B, C, ... are
\* used, the i-th label for the i-th survivor, no label twice and no survivor
\* without one; the mapping printed after collection pairs each label with the
\* model whose response the prompt shows under that label
C6_LabelsAreABijection ==
    LET S == Len(stage1) IN
    /\ Stage2Built
          => /\ Len(labels) = S
             /\ \A i \in 1..S : labels[i] = Letters[i]
             /\ \A i, j \in 1..S : labels[i] = labels[j] => i = j
             /\ Len(ranking_prompt.blocks) = S
             /\ \A i \in 1..S :
                   /\ ranking_prompt.blocks[i].label = labels[i]
                   /\ ranking_prompt.blocks[i].response = stage1[i].response
    /\ Stage2Revealed
          => /\ Len(revealed) = S
             /\ \A i \in 1..S :
                   /\ revealed[i].label = ranking_prompt.blocks[i].label
                   /\ revealed[i].model = stage1[i].model

C6_Witness ==
    /\ entry = "main" /\ Stage2Revealed
    /\ Len(stage1) = Len(COUNCIL_MODELS)
    /\ revealed[Len(stage1)].label = "C"
    /\ stage1[1].model # COUNCIL_MODELS[1]

ChairmanExitZero ==
    chairman_proc[1].kind = "exited" /\ chairman_proc[1].returncode = 0

\* C7: stage3_synthesize, whatever the sizes of its inputs, issues exactly one
\* call, to the chairman model, and returns the chairman's trimmed output or the
\* fixed failure sentence; whatever way the call ends it returns and raises nothing
C7_OneChairmanCall ==
    /\ Len(calls["stage3"]) <= 1
    /\ pc = "chairman" => Len(calls["stage3"]) = 1
    /\ final # <<>>
          => /\ Len(calls["stage3"]) = 1
             /\ calls["stage3"][1].model = CHAIRMAN_MODEL
             /\ calls["stage3"][1].prompt.stage1_text = Stage1Text(stage1)
             /\ calls["stage3"][1].prompt.stage2_text = Stage2Text(stage2)
             /\ exc = "none"
             /\ pc # "crashed"
             /\ \/ final[1] = SENTINEL
                \/ ChairmanExitZero /\ final[1] = Strip(chairman_proc[1].stdout)
             /\ ~ChairmanExitZero => final[1] = SENTINEL

C7_Witness ==
    /\ entry = "stage3_synthesize" /\ pc = "unit_done"
    /\ Len(stage1) = MaxRecords /\ stage2 = <<>>
    /\ chairman_proc[1].kind = "TimeoutExpired"
    /\ final = <<SENTINEL>>

\* C8: a model call that fails (non-zero exit, timeout, missing binary, other
\* exception) is recorded as None for its own model and goes no further: nothing
\* is raised, every submitted call still finishes, every call that exited with
\* code zero keeps its own trimmed output in the mapping, and a run that got past
\* the environment check ends with status 0
C8_FailureStaysInTheDispatcher ==
    /\ exc = "none"
    /\ pc # "crashed"
    /\ DispatchDone
          => \A i \in 1..Len(futures) :
                /\ futures[i].state = "finished"
                /\ HasKey(results, futures[i].model)
                /\ futures[i].how # "exit0"
                      => DictGet(results, futures[i].model) = None
                /\ futures[i].how = "exit0"
                      => /\ DictGet(results, futures[i].model) # None
                         /\ DictGet(results, futures[i].model) = futures[i].result
    /\ (pc = "exit" /\ orch # "Idle") => exit_code = 0

C8_Witness ==
    /\ entry = "main" /\ DispatchDone
    /\ futures[1].how = "timeout"
    /\ futures[2].how = "nonzero"
    /\ futures[3].how = "exit0"
    /\ DictGet(results, futures[1].model) = None
    /\ DictGet(results, futures[3].model) = Some(<<"a">>)

UnauthenticatedStdouts ==
    {<<"Not", " ", "logged", " ", "in">>, <<"NOT", " ", "AUTHENTICATED">>}
EnvironmentBroken(o) ==
    \/ o.kind = "FileNotFoundError"
    \/ o.kind = "exited" /\ o.stdout \in UnauthenticatedStdouts

\* C9: when the binary is missing or the status probe reports that the user is not
\* logged in, the program stops before any stage: exit status 1, no model call
\* issued, run_council never entered, and the error printed once
C9_EnvironmentErrorIsFatal ==
    (probe # <<>> /\ EnvironmentBroken(probe[1]))
        => /\ pc = "exit"
           /\ exit_code = 1
           /\ env_reports = 1
           /\ \A k \in DOMAIN calls : calls[k] = <<>>
           /\ orch = "Idle"
           /\ trail = <<>>

C9_Witness ==
    /\ probe # <<>>
    /\ probe[1].kind = "exited"
    /\ probe[1].stdout = <<"Not", " ", "logged", " ", "in">>
    /\ pc = "exit" /\ exit_code = 1 /\ env_reports = 1

IsPrefix(a, b) == Len(a) <= Len(b) /\ SubSeq(b, 1, Len(a)) = a
PathWithReview == <<"Start", "Stage1Done", "Stage2Done", "Stage3Done", "Reported">>
PathWithoutReview == <<"Start", "Stage1Done", "Stage2Skipped", "Stage3Done", "Reported">>
OnThePath == IsPrefix(trail, PathWithReview) \/ IsPrefix(trail, PathWithoutReview)
Stage3Started == calls["stage3"] # <<>> \/ pc \in {"stage3", "chairman", "report"}
RunCouncilOver == entry = "main" /\ trail # <<>> /\ pc \in {"returned", "exit"}

\* C10 as stated: the Orchestrator moves only along Start, Stage1Done, Stage2Done
\* or Stage2Skipped, Stage3Done, Reported, Stage 3 starts only after Stage 2 is
\* done or skipped, and every invocation ends in Reported
C10_AlwaysEndsReported ==
    /\ OnThePath
    /\ Stage3Started => \E i \in 1..Len(trail) : trail[i] \in {"Stage2Done", "Stage2Skipped"}
    /\ RunCouncilOver => orch = "Reported"

\* C10, amended: the Orchestrator moves only along that path, entering no state
\* twice, and Stage 3 starts only after Stage 2 is done or skipped; an invocation
\* in which Stage 1 has a survivor ends in Reported, reached once, and one in which
\* Stage 1 has none ends in Stage1Done without reaching Reported
C10_PathOfTheOrchestrator ==
    /\ OnThePath
    /\ orch = (IF trail = <<>> THEN "Idle" ELSE trail[Len(trail)])
    /\ Stage3Started => \E i \in 1..Len(trail) : trail[i] \in {"Stage2Done", "Stage2Skipped"}
    /\ RunCouncilOver
          => IF Len(stage1) > 0
             THEN orch = "Reported"
             ELSE trail = <<"Start", "Stage1Done">>

C10_Witness ==
    /\ RunCouncilOver /\ pc = "exit"
    /\ trail = PathWithReview
    /\ Len(stage1) = 2

DispatchReturned ==
    \/ pc \in {"stage1_filter", "stage2_filter"}
    \/ entry = "query_models_parallel" /\ pc = "unit_done"

\* C11: a dispatch call returns only after every call it submitted has completed
\* or failed; when query_models_parallel has returned its mapping, one call was
\* submitted per model, each of them has finished and none is still running
C11_ReturnsAfterEveryCall ==
    DispatchReturned
       => /\ Len(futures) = Len(models)
          /\ \A i \in 1..Len(futures) : futures[i].state = "finished"
          /\ running[caller] = 0

\* the dispatcher had to wait: no call had finished when the loop began
C11_Witness ==
    /\ DispatchReturned
    /\ Len(futures) >= 2
    /\ snapshot = {}
    /\ \E i \in 1..Len(futures) : futures[i].how = "timeout"

Stages == {"stage1", "stage2", "stage3"}

\* C12: at most one worker pool is active at any instant of a run; no Stage-2
\* call starts while a Stage-1 call is running, and the chairman call starts
\* only after every Stage-1 and Stage-2 call has finished
C12_OnePoolAtATime ==
    /\ Cardinality({k \in Stages : running[k] > 0}) <= 1
    /\ calls["stage2"] # <<>> => running["stage1"] = 0
    /\ calls["stage3"] # <<>> => running["stage1"] = 0 /\ running["stage2"] = 0

C12_Witness ==
    /\ entry = "main"
    /\ running["stage2"] = 2
    /\ Len(calls["stage1"]) = 3
    /\ Len(calls["stage2"]) = 3

InsideWith(i) == invocations[i].at \in {"inside", "ended"}

\* C13: each query_model call owns its own scratch directory, shared with no
\* call running at the same time, the directory exists while the call is inside
\* the block, and once the call has returned (exit 0, non-zero exit, timeout or
\* any other exception) its directory no longer exists
C13_ScratchDirectoryOwnedAndRemoved ==
    /\ \A i, j \in 1..Len(invocations) :
          i # j /\ InsideWith(i) /\ InsideWith(j)
             => invocations[i].tmpdir # invocations[j].tmpdir
    /\ \A i \in 1..Len(invocations) :
          /\ InsideWith(i) => invocations[i].tmpdir[1] \in scratch
          /\ invocations[i].at = "returned" => invocations[i].tmpdir[1] \notin scratch

\* one call has returned after a timeout while another is still inside its block
C13_Witness ==
    /\ Len(invocations) = 2
    /\ \E i, j \in 1..Len(invocations) :
          /\ invocations[i].at = "returned"
          /\ invocations[i].outcome[1].kind = "TimeoutExpired"
          /\ invocations[i].result = None
          /\ invocations[j].at = "inside"
          /\ scratch = {invocations[j].tmpdir[1]}

\* C14: in every reachable state, every record of Stage 1's output and every
\* record of Stage 2's output carries a non-empty model identifier (a council
\* model) and a non-empty text; once a stage has filtered the mapping, a model
\* whose answer is None or the empty string has no record
C14_RecordsAreNonEmpty ==
    /\ \A i \in 1..Len(stage1) :
          /\ stage1[i].model # ""
          /\ stage1[i].model \in Range(COUNCIL_MODELS)
          /\ stage1[i].response # <<>>
    /\ \A i \in 1..Len(stage2) :
          /\ stage2[i].model # ""
          /\ stage2[i].model \in Range(COUNCIL_MODELS)
          /\ stage2[i].ranking # <<>>
    /\ pc = "branch"
          => \A k \in 1..Len(results) :
                results[k].value \in {None, Some(<<>>)}
                   => \A i \in 1..Len(stage1) : stage1[i].model # results[k].key
    /\ (pc = "stage3" /\ orch = "Stage2Done")
          => \A k \in 1..Len(results) :
                results[k].value \in {None, Some(<<>>)}
                   => \A i \in 1..Len(stage2) : stage2[i].model # results[k].key

\* Stage 1 drops one absent answer and one empty answer and keeps the third
C14_Witness ==
    /\ entry = "main" /\ pc = "branch"
    /\ Len(results) = Len(COUNCIL_MODELS)
    /\ \E k \in 1..Len(results) : results[k].value = None
    /\ \E k \in 1..Len(results) : results[k].value = Some(<<>>)
    /\ Len(stage1) = 1

Ended == pc = "exit"

\* the three ways a run with a question ends
EndsWithReport ==
    /\ exit_code = 0 /\ orch = "Reported" /\ final # <<>>
    /\ noresp_reports = 0 /\ env_reports = 0
EndsWithNoResponses ==
    /\ exit_code = 0 /\ orch = "Stage1Done" /\ final = <<>>
    /\ noresp_reports = 1 /\ env_reports = 0
EndsWithEnvironmentFailure ==
    /\ exit_code = 1 /\ orch = "Idle" /\ final = <<>>
    /\ noresp_reports = 0 /\ env_reports = 1

\* the interactive prompt was answered with a blank line: no question, no run
NoQuestion == query = <<>> /\ env_reports = 0 /\ orch = "Idle"

\* C15: if every external process call eventually exits or hits its timeout,
\* every run eventually ends; a run that was given a non-empty query ends with
\* the report of the completed pipeline, with the "no responses" message, or
\* with a non-zero exit from an environment failure; no exception is ever left
\* unhandled
C15_EveryRunEnds ==
    /\ <>Ended
    /\ [](exc = "none" /\ pc # "crashed")
    /\ []((Ended /\ ~NoQuestion)
            => \/ EndsWithReport
               \/ EndsWithNoResponses
               \/ EndsWithEnvironmentFailure)

\* a run whose chairman call raised an exception other than the two named ones
\* and which ended with a report all the same
C15_Witness ==
    /\ Ended /\ EndsWithReport
    /\ chairman_proc[1].kind = "OSError"
    /\ final = <<SENTINEL>>
    /\ Len(stage1) = 1
    /\ query = SampleQuery

Survivors == {stage1[i].model : i \in 1..Len(stage1)}

\* C16: whenever Stage 2 runs in a run (two or more survivors), it issues one
\* call to every model of the council, the models whose Stage-1 call failed
\* included, every call carries the same prompt, and that prompt holds exactly
\* one labeled block per survivor; with two or more survivors Stage 3 is not
\* started before those calls were issued
C16_EveryCouncilModelReviews ==
    LET c == calls["stage2"] IN
    /\ c # <<>>
          => /\ Len(stage1) >= 2
             /\ Len(c) = Len(COUNCIL_MODELS)
             /\ \A i \in 1..Len(c) :
                   /\ c[i].model = COUNCIL_MODELS[i]
                   /\ c[i].prompt = c[1].prompt
                   /\ c[i].prompt = ranking_prompt
             /\ Len(ranking_prompt.blocks) = Len(stage1)
             /\ \A i, j \in 1..Len(stage1) :
                   ranking_prompt.blocks[i].label = ranking_prompt.blocks[j].label => i = j
    /\ (Stage3Started /\ Len(stage1) >= 2) => c # <<>>

\* two survivors, and the model whose Stage-1 call failed is asked to review
C16_Witness ==
    /\ entry = "main"
    /\ Len(stage1) = 2
    /\ Len(calls["stage2"]) = Len(COUNCIL_MODELS)
    /\ \E i \in 1..Len(calls["stage2"]) : calls["stage2"][i].model \notin Survivors
    /\ Len(calls["stage2"][1].prompt.blocks) = 2

Dispatching == futures # <<>> /\ pc \in {"as_completed", "collect", "stage1_filter", "stage2_filter"}

\* the mapping holds, for each future collected so far, that future's own model
\* with that future's own result
OwnResults ==
    results = [k \in 1..Len(yielded) |->
                  [key |-> futures[yielded[k]].model, value |-> futures[yielded[k]].result]]

\* C17: under every interleaving of call completions the value stored for a
\* model is the outcome of that model's own call, and the mapping is written by
\* the coordinating thread alone, one new key per collected future: a worker
\* that completes does not touch it and no stored result is overwritten
C17_OwnResultStoredOnce ==
    /\ [](Dispatching => OwnResults)
    /\ [][results' # results
            => \/ results' = <<>>
               \/ /\ pc = "collect"
                  /\ Len(results') = Len(results) + 1
                  /\ SubSeq(results', 1, Len(results)) = results]_vars

\* the last council model finished first, with an answer, and another call failed
C17_Witness ==
    /\ entry = "main" /\ pc = "stage1_filter"
    /\ yielded[1] = Len(COUNCIL_MODELS)
    /\ results[1] = [key |-> COUNCIL_MODELS[Len(COUNCIL_MODELS)], value |-> Some(<<"a">>)]
    /\ \E k \in 1..Len(results) : results[k].value = None

\* the models that answered, in the order given by a sequence of future indices
Answered(order) ==
    LET kept == SelectSeq(order, LAMBDA i : Truthy(futures[i].result))
    IN  [k \in 1..Len(kept) |-> futures[kept[k]].model]

ModelsOf(rs) == [i \in 1..Len(rs) |-> rs[i].model]

\* C18 as stated: the sequence returned by Stage 1 lists the surviving models in
\* the order their calls completed, the labels are assigned positionally over
\* that order, and the rankings returned by Stage 2 are in completion order too
\* (the code fails it when calls finish before the collection loop begins)
C18_CompletionOrder ==
    /\ (entry = "main" /\ pc = "branch") => ModelsOf(stage1) = Answered(done_order)
    /\ (entry = "main" /\ pc = "stage2_filter")
          => /\ ModelsOf(stage1) = ModelsOf(revealed)
             /\ \A i \in 1..Len(labels) : labels[i] = Letters[i]
    /\ (entry = "main" /\ pc = "stage3" /\ orch = "Stage2Done")
          => ModelsOf(stage2) = Answered(done_order)

N == Len(COUNCIL_MODELS)

TotalCalls ==
    Len(calls["stage1"]) + Len(calls["stage2"]) + Len(calls["stage3"]) + Len(calls["direct"])

Distinct(c) == \A i, j \in 1..Len(c) : c[i].model = c[j].model => i = j

\* C19: no model call is retried; in a run each council model is called at most
\* once in Stage 1 and at most once in Stage 2, the chairman at most once in
\* Stage 3, and when the run is over the number of model calls is N with no
\* Stage-1 survivor, N + 1 with exactly one, and 2N + 1 with two or more
C19_NoRetries ==
    /\ \A k \in {"stage1", "stage2"} :
          /\ Len(calls[k]) <= N
          /\ Distinct(calls[k])
          /\ \A i \in 1..Len(calls[k]) : calls[k][i].model \in Range(COUNCIL_MODELS)
    /\ Len(calls["stage3"]) <= 1
    /\ \A i \in 1..Len(calls["stage3"]) : calls["stage3"][i].model = CHAIRMAN_MODEL
    /\ RunCouncilOver
          => TotalCalls = (IF Len(stage1) = 0 THEN N
                           ELSE IF Len(stage1) = 1 THEN N + 1
                           ELSE 2 * N + 1)

\* a finished run with one survivor, whose failed companions were not called
\* again
C19_Witness ==
    /\ RunCouncilOver /\ pc = "exit"
    /\ Len(stage1) = 1
    /\ TotalCalls = N + 1
    /\ calls["stage2"] = <<>>
    /\ orch = "Reported"

ChairmanFailed == chairman_proc # <<>> /\ ~Truthy(query_model(chairman_proc[1]))

\* C20: zero Stage-1 survivors is the only condition that ends a started
\* pipeline before its report; with two or more survivors and no ranking left
\* from Stage 2, Stage 3 is still entered, its prompt holding every Stage-1
\* record and no ranking; a failed chairman call gives the sentinel string as
\* the final answer, which is reported
C20_OnlyZeroSurvivorsAborts ==
    /\ pc # "crashed" /\ exc = "none"
    /\ (RunCouncilOver /\ orch # "Reported") => Len(stage1) = 0
    /\ (RunCouncilOver /\ Len(stage1) > 0) => orch = "Reported" /\ final # <<>>
    /\ (entry = "main" /\ pc = "stage3") => Len(stage1) > 0
    /\ (entry = "main" /\ calls["stage3"] # <<>>)
          => LET p == calls["stage3"][1].prompt IN
             /\ Len(p.stage1_text) = Len(stage1)
             /\ \A i \in 1..Len(stage1) :
                   /\ p.stage1_text[i].model = stage1[i].model
                   /\ p.stage1_text[i].response = stage1[i].response
             /\ Len(p.stage2_text) = Len(stage2)
             /\ stage2 = <<>> => p.stage2_text = <<>>
    /\ (entry = "main" /\ ChairmanFailed)
          => /\ final = <<SENTINEL>>
             /\ pc \in {"report", "returned", "exit"}

\* three survivors, every review call failed, the chairman failed, and the run
\* still ended with a report
C20_Witness ==
    /\ RunCouncilOver /\ pc = "exit" /\ exit_code = 0
    /\ trail = PathWithReview
    /\ Len(stage1) = N
    /\ Len(calls["stage2"]) = N
    /\ stage2 = <<>>
    /\ Len(calls["stage3"][1].prompt.stage1_text) = N
    /\ chairman_proc[1].kind = "exited" /\ chairman_proc[1].returncode = 1
    /\ final = <<SENTINEL>>

====
